---- MODULE Spec2Model ----
(***************************************************************************)
(* A model of uclasm/utils/data_structures.py: the graph container         *)
(* _Graph (World) and the candidate overlay _GraphWithCandidates           *)
(* (Template).  Matrices and arrays are mutable objects on a heap; the     *)
(* objects hold references (heap addresses) to them, as Python does.       *)
(* Python positions are 0-based: position i of a sequence s is s[i+1].     *)
(***************************************************************************)
EXTENDS Integers, Sequences, FiniteSets, TLC

VARIABLES dataset, heap, objs, printopts, ret, nwrites

vars == <<dataset, heap, objs, printopts, ret, nwrites>>

(* ------------------------------ bounds --------------------------------- *)

\* most nodes (and most candidates) of a loaded graph
MaxN == 2
\* most graph objects alive in one run
MaxObjs == 2
\* most in-place writes into matrices in one run
MaxWrites == 2

NodeNames == <<"a", "b", "c", "d", "e">>
CandNames == <<"b", "a", "z", "c", "y">>
ChannelNames == <<"e", "f">>

(* --------------------------- array values ------------------------------ *)

Range0(n) == 0 .. (n - 1)

Cells(r, c) == Range0(r) \X Range0(c)

Exceptions ==
    {"ValueError", "AttributeError", "IndexError", "NameError", "TypeError", "KeyError"}

\* a value that is no array: None, Python's int 0, or a raised exception
Atom(kind) == [kind |-> kind, r |-> 0, c |-> 0, v |-> << >>]

None == Atom("None")

Raise(exc) == Atom(exc)

IsExc(x) == x.kind \in Exceptions

IsArray(x) == x.kind \in {"int", "bool"}

\* an r x c array whose entry at (i, j) is v[<<i, j>>]
Array(kind, r, c, v) ==
    [kind |-> kind, r |-> r, c |-> c, v |-> [p \in Cells(r, c) |-> v[p]]]

At(A, i, j) == A.v[<<i, j>>]

\* scipy's A + B; Python's 0 + A is a copy of A
Add(A, B) ==
    IF IsExc(A) THEN A
    ELSE IF IsExc(B) THEN B
    ELSE IF A.kind = "scalar" THEN B
    ELSE IF B.kind = "scalar" THEN A
    ELSE IF A.r # B.r \/ A.c # B.c THEN Raise("ValueError")
    ELSE Array("int", A.r, A.c, [p \in Cells(A.r, A.c) |-> A.v[p] + B.v[p]])

\* A.T; Python's int has no attribute T
Transpose(A) ==
    IF IsExc(A) THEN A
    ELSE IF ~IsArray(A) THEN Raise("AttributeError")
    ELSE Array(A.kind, A.c, A.r, [p \in Cells(A.c, A.r) |-> At(A, p[2], p[1])])

\* A > 0
GreaterThan0(A) ==
    IF IsExc(A) THEN A
    ELSE IF ~IsArray(A) THEN Raise("TypeError")
    ELSE Array("bool", A.r, A.c, [p \in Cells(A.r, A.c) |-> IF A.v[p] > 0 THEN 1 ELSE 0])

\* sparse.tril(A): the entries on and below the diagonal (k = 0)
Tril(A) ==
    Array(A.kind, A.r, A.c, [p \in Cells(A.r, A.c) |-> IF p[1] >= p[2] THEN A.v[p] ELSE 0])

\* the cells of row i, from column j on, that are nonzero, in column order
RECURSIVE RowNonzero(_, _, _)
RowNonzero(A, i, j) ==
    IF j >= A.c THEN << >>
    ELSE (IF At(A, i, j) # 0 THEN << <<i, j>> >> ELSE << >>) \o RowNonzero(A, i, j + 1)

\* np.argwhere(A): the positions of the nonzero entries, in row-major order
RECURSIVE ArgwhereFrom(_, _)
ArgwhereFrom(A, i) ==
    IF i >= A.r THEN << >> ELSE RowNonzero(A, i, 0) \o ArgwhereFrom(A, i + 1)

Argwhere(A) == ArgwhereFrom(A, 0)

\* Python's sum(ms): 0 + ms[1] + ms[2] + ...
RECURSIVE SumFrom(_, _, _)
SumFrom(acc, ms, k) ==
    IF k > Len(ms) \/ IsExc(acc) THEN acc ELSE SumFrom(Add(acc, ms[k]), ms, k + 1)

PySum(ms) == SumFrom(Atom("scalar"), ms, 1)

\* index_map(lst) of uclasm.utils.misc: identifier -> position
index_map(lst) ==
    [x \in {lst[k] : k \in 1 .. Len(lst)} |-> (CHOOSE k \in 1 .. Len(lst) : lst[k] = x) - 1]

Prefix(s, n) == SubSeq(s, 1, n)

Min(a, b) == IF a <= b THEN a ELSE b

(* ------------------------------ _Graph --------------------------------- *)

\* the values of the matrices a graph refers to, in channel order
adjs(self) == [k \in 1 .. Len(self.ch_to_adj) |-> self.ch_to_adj[k].adj]

channels(self) == [k \in 1 .. Len(self.ch_to_adj) |-> self.ch_to_adj[k].ch]

AdjValues(h, self) == [k \in 1 .. Len(self.ch_to_adj) |-> h[self.ch_to_adj[k].adj]]

\* zip(channels, adjs): pairs up to the shorter of the two
Zip(chs, as) == [k \in 1 .. Min(Len(chs), Len(as)) |-> [ch |-> chs[k], adj |-> as[k]]]

NoStores == [composite |-> 0, sym |-> 0, nbr |-> 0]

Graph_init(cls, nodes, chs, as) ==
    [cls |-> cls,
     ch_to_adj |-> Zip(chs, as),
     nodes |-> nodes,
     n_nodes |-> Len(nodes),
     node_idxs |-> index_map(nodes),
     _composite_adj |-> None,
     _sym_composite_adj |-> None,
     _is_nbr |-> None,
     cands |-> << >>,
     n_cands |-> 0,
     cand_idxs |-> << >>,
     is_cand |-> 0,
     stores |-> NoStores]

\* a property's outcome: the object as the access leaves it, and the value
\* returned (or the exception raised)
Outcome(self, val) == [self |-> self, val |-> val]

\* composite_adj without the check for a stored value
composite_adj_uncached(h, self) ==
    LET s == PySum(AdjValues(h, self)) IN
    IF IsExc(s) THEN Outcome(self, s)
    ELSE Outcome([self EXCEPT !._composite_adj = s, !.stores.composite = @ + 1], s)

composite_adj(h, self) ==
    IF self._composite_adj = None
    THEN LET s == PySum(AdjValues(h, self)) IN
         IF IsExc(s) THEN Outcome(self, s)
         ELSE Outcome([self EXCEPT !._composite_adj = s,
                                   !.stores.composite = @ + 1], s)
    ELSE Outcome(self, self._composite_adj)

\* sym_composite_adj without the transpose
sym_composite_adj_untransposed(h, self) ==
    IF self._sym_composite_adj = None
    THEN LET left == composite_adj(h, self)
             right == composite_adj(h, left.self)
             s == Add(left.val, right.val)
         IN  IF IsExc(s) \/ ~IsArray(s) THEN Outcome(right.self, Raise("AttributeError"))
             ELSE Outcome([right.self EXCEPT !._sym_composite_adj = s,
                                             !.stores.sym = @ + 1], s)
    ELSE Outcome(self, self._sym_composite_adj)

sym_composite_adj(h, self) ==
    IF self._sym_composite_adj = None
    THEN LET left == composite_adj(h, self)
             right == composite_adj(h, left.self)
             s == Add(left.val, Transpose(right.val))
         IN  IF IsExc(s) THEN Outcome(right.self, s)
             ELSE Outcome([right.self EXCEPT !._sym_composite_adj = s,
                                             !.stores.sym = @ + 1], s)
    ELSE Outcome(self, self._sym_composite_adj)

is_nbr(h, self) ==
    IF self._is_nbr = None
    THEN LET sym == sym_composite_adj(h, self)
             b == GreaterThan0(sym.val)
         IN  IF IsExc(b) THEN Outcome(sym.self, b)
             ELSE Outcome([sym.self EXCEPT !._is_nbr = b,
                                           !.stores.nbr = @ + 1], b)
    ELSE Outcome(self, self._is_nbr)

\* the 2-column array np.argwhere returns, held as the sequence of its rows
Rows(rows) == [kind |-> "rows", r |-> Len(rows), c |-> 2, v |-> rows]

nbr_idx_pairs(h, self) ==
    LET nbr == is_nbr(h, self) IN
    IF IsExc(nbr.val) THEN nbr ELSE Outcome(nbr.self, Rows(Argwhere(Tril(nbr.val))))

\* adj[node_idxs, :][:, node_idxs]
Restrict(A, node_idxs) ==
    LET R(i, j) == At(A, node_idxs[i + 1], node_idxs[j + 1])
    IN  Array(A.kind, Len(node_idxs), Len(node_idxs),
              [p \in Cells(Len(node_idxs), Len(node_idxs)) |-> R(p[1], p[2])])

\* the names bound in the body of subgraph when its return statement runs
SubgraphLocals == {"self", "node_idxs", "nodes", "adjs"}

\* the names bound at module level
ModuleGlobals ==
    {"index_map", "plt", "sparse", "np", "nx", "pd", "functools", "time",
     "_Graph", "_GraphWithCandidates", "World", "Template"}

\* the outcome of a call that may build an object: the heap and the new
\* object, or the exception raised
Built(h, obj) == [exc |-> "", heap |-> h, obj |-> obj]

Failed(h, exc) == [exc |-> exc, heap |-> h, obj |-> << >>]

Graph_subgraph(h, self, node_idxs) ==
    IF \E k \in 1 .. Len(node_idxs) : node_idxs[k] \notin Range0(self.n_nodes)
    THEN Failed(h, "IndexError")
    ELSE LET nodes == [k \in 1 .. Len(node_idxs) |-> self.nodes[node_idxs[k] + 1]]
             vals == AdjValues(h, self)
         IN  IF \E k \in 1 .. Len(vals) : \E q \in 1 .. Len(node_idxs) :
                    node_idxs[q] \notin Range0(vals[k].r) \/ node_idxs[q] \notin Range0(vals[k].c)
             THEN Failed(h, "IndexError")
             ELSE LET new == [k \in 1 .. Len(vals) |-> Restrict(vals[k], node_idxs)]
                      refs == [k \in 1 .. Len(vals) |-> Len(h) + k]
                  IN  \* the return statement reads the name subgraph_nodes
                      IF "subgraph_nodes" \in SubgraphLocals \cup ModuleGlobals
                      THEN Built(h \o new, Graph_init(self.cls, nodes, channels(self), refs))
                      ELSE Failed(h, "NameError")

\* [a.copy() for a in refs]: fresh arrays holding the same values
CopyArrays(h, refs) ==
    [heap |-> h \o [k \in 1 .. Len(refs) |-> h[refs[k]]],
     refs |-> [k \in 1 .. Len(refs) |-> Len(h) + k]]

\* copy handing the receiver's own matrices to the new graph
Graph_copy_shared(h, self) ==
    Built(h, Graph_init(self.cls, self.nodes, channels(self), adjs(self)))

Graph_copy(h, self) ==
    LET c == CopyArrays(h, adjs(self))
    IN  Built(c.heap, Graph_init(self.cls, self.nodes, channels(self), c.refs))

(* ------------------------ _GraphWithCandidates ------------------------- *)

\* np.ones((r, c), dtype=np.bool_)
Ones(r, c) == Array("bool", r, c, [p \in Cells(r, c) |-> 1])

\* is_cand = 0 stands for the argument None
GraphWithCandidates_init(h, cls, candidates, nodes, chs, as, is_cand) ==
    LET base == Graph_init(cls, nodes, chs, as)
        h2 == IF is_cand = 0 THEN Append(h, Ones(Len(nodes), Len(candidates))) ELSE h
        ref == IF is_cand = 0 THEN Len(h) + 1 ELSE is_cand
    IN  Built(h2, [base EXCEPT !.cands = candidates,
                               !.n_cands = Len(candidates),
                               !.cand_idxs = index_map(candidates),
                               !.is_cand = ref])

\* the result of a query: the value returned, or the exception raised
Value(val) == [exc |-> "", val |-> val]

Error(exc) == [exc |-> exc, val |-> << >>]

\* cands[mask]: the entries of cands at the positions where row i of M is true
RECURSIVE MaskFrom(_, _, _, _)
MaskFrom(cands, M, i, j) ==
    IF j >= M.c THEN << >>
    ELSE (IF At(M, i, j) # 0 THEN <<cands[j + 1]>> ELSE << >>) \o MaskFrom(cands, M, i, j + 1)

\* self.cands[self.is_cand[self.node_idxs[node]]]; a mask of another length
\* than cands is an IndexError
get_cands(h, self, node) ==
    IF node \notin DOMAIN self.node_idxs THEN Error("KeyError")
    ELSE LET node_idx == self.node_idxs[node]
             M == h[self.is_cand]
         IN  IF node_idx \notin Range0(M.r) THEN Error("IndexError")
             ELSE IF M.c # Len(self.cands) THEN Error("IndexError")
             ELSE Value(MaskFrom(self.cands, M, node_idx, 0))

RECURSIVE RowSumFrom(_, _, _)
RowSumFrom(M, i, j) ==
    IF j >= M.c THEN 0 ELSE At(M, i, j) + RowSumFrom(M, i, j + 1)

\* is_cand.sum(axis=1)
RowSums(M) == [k \in 1 .. M.r |-> RowSumFrom(M, k - 1, 0)]

get_cand_counts(h, self) == Value(RowSums(h[self.is_cand]))

\* copy handing the receiver's own is_cand to the new template
GraphWithCandidates_copy_shared_is_cand(h, self) ==
    LET c == CopyArrays(h, adjs(self))
    IN  GraphWithCandidates_init(c.heap, self.cls, self.cands, self.nodes,
                                 channels(self), c.refs, self.is_cand)

GraphWithCandidates_copy(h, self) ==
    LET c == CopyArrays(h, adjs(self))
        ic == CopyArrays(c.heap, <<self.is_cand>>)
    IN  GraphWithCandidates_init(ic.heap, self.cls, self.cands, self.nodes,
                                 channels(self), c.refs, ic.refs[1])

(* ------------------------------ summarize ------------------------------ *)

\* np.set_printoptions(threshold=10, edgeitems=6)
SummarizeThreshold == 10
SummarizeEdgeitems == 6

set_printoptions(opts, threshold, edgeitems) ==
    [opts EXCEPT !.threshold = threshold, !.edgeitems = edgeitems]

\* the restoring call left out
restore_printoptions_skipped(opts, print_opts) == opts

\* np.set_printoptions(**print_opts)
restore_printoptions(opts, print_opts) == print_opts

\* an array as print shows it under opts: abbreviated beyond threshold entries
Shown(cands, opts) ==
    IF Len(cands) > opts.threshold
    THEN SubSeq(cands, 1, opts.edgeitems) \o <<"...">>
         \o SubSeq(cands, Len(cands) - opts.edgeitems + 1, Len(cands))
    ELSE cands

\* key_func(node): (-cand_counts[idx], -idx)
key_func(self, cand_counts, node) ==
    <<0 - cand_counts[self.node_idxs[node] + 1], 0 - self.node_idxs[node]>>

KeyLess(a, b) == a[1] < b[1] \/ (a[1] = b[1] /\ a[2] < b[2])

\* sorted(nodes, key=key_func)
RECURSIVE SortedBy(_, _, _)
SortedBy(self, cand_counts, rest) ==
    IF rest = {} THEN << >>
    ELSE LET first == CHOOSE x \in rest : \A y \in rest \ {x} :
                          KeyLess(key_func(self, cand_counts, x), key_func(self, cand_counts, y))
         IN  <<first>> \o SortedBy(self, cand_counts, rest \ {first})

\* the loop of summarize from position k of the sorted nodes on: the lines
\* printed and the print options it leaves
RECURSIVE SummarizeLoop(_, _, _, _, _)
SummarizeLoop(h, self, order, k, acc) ==
    IF k > Len(order) THEN acc
    ELSE LET node == order[k]
             cands == get_cands(h, self, node).val
             print_opts == acc.opts
             during == set_printoptions(acc.opts, SummarizeThreshold, SummarizeEdgeitems)
             line == [node |-> node, n_cands |-> Len(cands), cands |-> Shown(cands, during)]
         IN  SummarizeLoop(h, self, order, k + 1,
                           [opts |-> restore_printoptions(during, print_opts),
                            lines |-> Append(acc.lines, line)])

\* [node for node in nodes if keep[node]]
SelectNodes(nodes, keep) ==
    LET F[k \in 0 .. Len(nodes)] ==
            IF k = 0 THEN << >>
            ELSE IF keep[nodes[k]] THEN Append(F[k - 1], nodes[k]) ELSE F[k - 1]
    IN  F[Len(nodes)]

\* summarize under print options opts: what is printed and the print options
\* left behind, or the exception raised
summarize(h, self, opts) ==
    LET Fails(node) == get_cands(h, self, node).exc # ""
        Cands(node) == get_cands(h, self, node).val
        IsIdentified(node) == Len(Cands(node)) = 1
        IsMissing(node) == \A q \in 1 .. Len(Cands(node)) : Cands(node)[q] # node
    IN  IF \E k \in 1 .. Len(self.nodes) : Fails(self.nodes[k])
        THEN [exc |-> get_cands(h, self,
                         self.nodes[CHOOSE k \in 1 .. Len(self.nodes) :
                             /\ Fails(self.nodes[k])
                             /\ \A q \in 1 .. (k - 1) : ~Fails(self.nodes[q])]).exc,
              opts |-> opts, out |-> << >>]
        ELSE LET all == {self.nodes[k] : k \in 1 .. Len(self.nodes)}
                 identified == SelectNodes(self.nodes, [x \in all |-> IsIdentified(x)])
                 missing_ground_truth == SelectNodes(self.nodes, [x \in all |-> IsMissing(x)])
                 cand_counts == RowSums(h[self.is_cand])
                 order == SortedBy(self, cand_counts, all)
                 loop == SummarizeLoop(h, self, order, 1, [opts |-> opts, lines |-> << >>])
             IN  [exc |-> "",
                  opts |-> loop.opts,
                  out |-> [lines |-> loop.lines,
                           identified |-> identified,
                           missing |-> missing_ground_truth]]

(* ------------------------- what the loader supplies -------------------- *)

\* an n x n matrix whose stored entries are the cells of E
EdgeMatrix(n, E) ==
    Array("int", n, n, [p \in Cells(n, n) |-> IF p \in E THEN 1 ELSE 0])

\* sparse inputs: at most one stored entry per channel matrix
SparseMatrices(n) == {EdgeMatrix(n, E) : E \in {{}} \cup {{e} : e \in Cells(n, n)}}

\* the path 0 -> 1 -> ... -> n-1
PathMatrix(n) == EdgeMatrix(n, {<<i, i + 1>> : i \in Range0(n - 1)})

\* an r x c boolean array, all true except the cells of S
OnesExcept(r, c, S) ==
    Array("bool", r, c, [p \in Cells(r, c) |-> IF p \in S THEN 0 ELSE 1])

Loaded(nodes, chs, as, cands, is_cand) ==
    [nodes |-> nodes, channels |-> chs, adjs |-> as, cands |-> cands, is_cand |-> is_cand]

\* a world: n nodes, k channels, one n x n matrix per channel
CoreDatasets ==
    UNION {UNION {{Loaded(Prefix(NodeNames, n), Prefix(ChannelNames, k), as, << >>, None) :
                      as \in [1 .. k -> SparseMatrices(n)]} :
                  k \in 0 .. Len(ChannelNames)} :
           n \in 0 .. MaxN}

\* a template: n nodes on a path, m candidates, and a seed is_cand of shape
\* n x m (or none)
OverlayDatasets ==
    UNION {UNION {{Loaded(Prefix(NodeNames, n), <<ChannelNames[1]>>, <<PathMatrix(n)>>,
                          Prefix(CandNames, m), seed) :
                      seed \in {None} \cup {OnesExcept(n, m, S) :
                                               S \in {{}} \cup {{e} : e \in Cells(n, m)}}} :
                  m \in 0 .. MaxN} :
           n \in 0 .. MaxN}

\* a world of two channels: a path and a self-loop on the first node
CopyDatasets ==
    {Loaded(Prefix(NodeNames, n), ChannelNames,
            <<PathMatrix(n), EdgeMatrix(n, {<<0, 0>>} \cap Cells(n, n))>>, << >>, None) :
        n \in 0 .. MaxN}

\* a template of n nodes and n candidates with an all-true seed is_cand, or none
OverlayCopyDatasets ==
    UNION {{Loaded(Prefix(NodeNames, n), <<ChannelNames[1]>>, <<PathMatrix(n)>>,
                   Prefix(CandNames, n), seed) :
               seed \in {None, OnesExcept(n, n, {})}} :
           n \in 0 .. MaxN}

\* what a caller can pass with no regard for shapes: any number of square
\* matrices of any size beside the channels, a seed is_cand of any shape
UncheckedDatasets ==
    UNION {UNION {{Loaded(Prefix(NodeNames, n), Prefix(ChannelNames, k),
                          [q \in 1 .. Len(dims) |-> EdgeMatrix(dims[q], {})], << >>, None) :
                      dims \in UNION {[1 .. ka -> 0 .. (MaxN + 1)] : ka \in 0 .. Len(ChannelNames)}} :
                  k \in 0 .. Len(ChannelNames)} :
           n \in 0 .. MaxN}
    \cup
    UNION {UNION {{Loaded(Prefix(NodeNames, n), <<ChannelNames[1]>>, <<PathMatrix(n)>>,
                          Prefix(CandNames, m), seed) :
                      seed \in {None} \cup {OnesExcept(r, c, {}) :
                                               r \in 0 .. (MaxN + 1), c \in 0 .. (MaxN + 1)}} :
                  m \in 0 .. MaxN} :
           n \in 0 .. MaxN}

\* numpy's print options: the defaults, and one other setting a caller may choose
PrintoptionsChoices ==
    {[threshold |-> 1000, edgeitems |-> 3], [threshold |-> 1, edgeitems |-> 1]}

Return(op, g, arg, exc, val) == [op |-> op, g |-> g, arg |-> arg, exc |-> exc, val |-> val]

\* the loader's arrays live on the heap; the dataset refers to them
InitWith(d) ==
    /\ heap = d.adjs \o (IF d.is_cand = None THEN << >> ELSE <<d.is_cand>>)
    /\ dataset = [d EXCEPT !.adjs = [k \in 1 .. Len(d.adjs) |-> k],
                           !.is_cand = IF d.is_cand = None THEN 0 ELSE Len(d.adjs) + 1]
    /\ objs = << >>
    /\ printopts = [threshold |-> 1000, edgeitems |-> 3]
    /\ ret = Return("load", 0, << >>, "", << >>)
    /\ nwrites = 0

Init == \E d \in CoreDatasets : InitWith(d)

InitOverlay == \E d \in OverlayDatasets : InitWith(d)

InitUnchecked == \E d \in UncheckedDatasets : InitWith(d)

InitCopy == \E d \in CopyDatasets : InitWith(d)

InitOverlayCopy == \E d \in OverlayCopyDatasets : InitWith(d)

(* ------------------------------- actions -------------------------------- *)

Objects == 1 .. Len(objs)

\* the loader builds the one world of the run: World(nodes, channels, adjs)
NewWorld ==
    /\ objs = << >>
    /\ objs' = Append(objs, Graph_init("World", dataset.nodes, dataset.channels, dataset.adjs))
    /\ ret' = Return("World", 0, << >>, "", Len(objs) + 1)
    /\ UNCHANGED <<dataset, heap, printopts, nwrites>>

\* the loader builds the one template of the run:
\* Template(candidates, nodes, channels, adjs) or, seeded,
\* Template(candidates, nodes, channels, adjs, is_cand=seed)
NewTemplate(seeded) ==
    /\ objs = << >>
    /\ seeded => dataset.is_cand # 0
    /\ LET b == GraphWithCandidates_init(heap, "Template", dataset.cands, dataset.nodes,
                                         dataset.channels, dataset.adjs,
                                         IF seeded THEN dataset.is_cand ELSE 0)
       IN  /\ heap' = b.heap
           /\ objs' = Append(objs, b.obj)
    /\ ret' = Return("Template", 0, seeded, "", Len(objs) + 1)
    /\ UNCHANGED <<dataset, printopts, nwrites>>

\* the outcome of reading a property of objs[g]
Access(op, g, o) ==
    /\ objs' = [objs EXCEPT ![g] = o.self]
    /\ ret' = IF IsExc(o.val) THEN Return(op, g, << >>, o.val.kind, << >>)
              ELSE Return(op, g, << >>, "", o.val)
    /\ UNCHANGED <<dataset, heap, printopts, nwrites>>

CompositeAdj(g) == Access("composite_adj", g, composite_adj(heap, objs[g]))

SymCompositeAdj(g) == Access("sym_composite_adj", g, sym_composite_adj(heap, objs[g]))

IsNbr(g) == Access("is_nbr", g, is_nbr(heap, objs[g]))

NbrIdxPairs(g) == Access("nbr_idx_pairs", g, nbr_idx_pairs(heap, objs[g]))

\* the outcome of a call on objs[g] that returns a new object: val is the
\* new object's place in objs
Build(op, g, arg, b) ==
    /\ ret' = Return(op, g, arg, b.exc, IF b.exc = "" THEN Len(objs) + 1 ELSE 0)
    /\ heap' = b.heap
    /\ objs' = IF b.exc = "" THEN Append(objs, b.obj) ELSE objs
    /\ UNCHANGED <<dataset, printopts, nwrites>>

\* index lists, valid or not: out of range, repeated
IdxLists == {<< >>, <<0>>, <<0, 1>>, <<1, 0>>, <<1, 1>>, <<2>>, <<0, 1, 2>>}

Subgraph(g, node_idxs) ==
    /\ Len(objs) < MaxObjs
    /\ Build("subgraph", g, node_idxs, Graph_subgraph(heap, objs[g], node_idxs))

\* copy() is overridden in _GraphWithCandidates
Copy(g) ==
    /\ Len(objs) < MaxObjs
    /\ Build("copy", g, << >>,
             IF objs[g].cls = "Template" THEN GraphWithCandidates_copy(heap, objs[g])
             ELSE Graph_copy(heap, objs[g]))

Query(op, g, arg, q) ==
    /\ ret' = Return(op, g, arg, q.exc, q.val)
    /\ UNCHANGED <<dataset, heap, objs, printopts, nwrites>>

GetCands(g, node) ==
    /\ objs[g].cls = "Template"
    /\ Query("get_cands", g, node, get_cands(heap, objs[g], node))

GetCandCounts(g) ==
    /\ objs[g].cls = "Template"
    /\ Query("get_cand_counts", g, << >>, get_cand_counts(heap, objs[g]))

Summarize(g) ==
    LET s == summarize(heap, objs[g], printopts) IN
    /\ objs[g].cls = "Template"
    /\ printopts' = s.opts
    /\ ret' = Return("summarize", g, << >>, s.exc, s.out)
    /\ UNCHANGED <<dataset, heap, objs, nwrites>>

\* a caller writes into a channel matrix of objs[g] in place
MutateAdj(g, k, i, j) ==
    /\ nwrites < MaxWrites
    /\ k \in 1 .. Len(objs[g].ch_to_adj)
    /\ LET ref == objs[g].ch_to_adj[k].adj IN
       /\ <<i, j>> \in DOMAIN heap[ref].v
       /\ heap' = [heap EXCEPT ![ref].v[<<i, j>>] = 1 - @]
    /\ nwrites' = nwrites + 1
    /\ ret' = Return("setitem_adj", g, <<k, i, j>>, "", << >>)
    /\ UNCHANGED <<dataset, objs, printopts>>

\* a filtering step clears one entry of objs[g].is_cand in place
ClearCand(g, i, j) ==
    /\ nwrites < MaxWrites
    /\ objs[g].is_cand # 0
    /\ LET ref == objs[g].is_cand IN
       /\ <<i, j>> \in DOMAIN heap[ref].v
       /\ heap[ref].v[<<i, j>>] = 1
       /\ heap' = [heap EXCEPT ![ref].v[<<i, j>>] = 0]
    /\ nwrites' = nwrites + 1
    /\ ret' = Return("clear_cand", g, <<i, j>>, "", << >>)
    /\ UNCHANGED <<dataset, objs, printopts>>

\* some other code of the process calls np.set_printoptions
SetPrintoptions(o) ==
    /\ printopts # o
    /\ printopts' = o
    /\ ret' = Return("set_printoptions", 0, << >>, "", << >>)
    /\ UNCHANGED <<dataset, heap, objs, nwrites>>

Dim == Range0(MaxN + 1)

\* a world and what is read and derived from it
Next ==
    \/ NewWorld
    \/ \E g \in Objects : CompositeAdj(g)
    \/ \E g \in Objects : SymCompositeAdj(g)
    \/ \E g \in Objects : IsNbr(g)
    \/ \E g \in Objects : NbrIdxPairs(g)
    \/ \E g \in Objects : \E node_idxs \in IdxLists : Subgraph(g, node_idxs)
    \/ \E g \in Objects : Copy(g)

Spec == Init /\ [][Next]_vars

\* a world, its copies, and writes into their matrices
NextCopy ==
    \/ NewWorld
    \/ \E g \in Objects : Copy(g)
    \/ \E g \in Objects : \E k \in 1 .. Len(ChannelNames) : \E i, j \in Dim : MutateAdj(g, k, i, j)

SpecCopy == InitCopy /\ [][NextCopy]_vars

\* the queries of a template over a matching run
NextOverlay ==
    \/ \E seeded \in BOOLEAN : NewTemplate(seeded)
    \/ \E g \in Objects : \E i, j \in Dim : ClearCand(g, i, j)
    \/ \E g \in Objects : \E k \in 1 .. objs[g].n_nodes : GetCands(g, objs[g].nodes[k])
    \/ \E g \in Objects : GetCandCounts(g)

SpecOverlay == InitOverlay /\ [][NextOverlay]_vars

\* the diagnostic of a template over a matching run
NextSummarize ==
    \/ \E seeded \in BOOLEAN : NewTemplate(seeded)
    \/ \E g \in Objects : \E i, j \in Dim : ClearCand(g, i, j)
    \/ \E g \in Objects : IsNbr(g)
    \/ \E g \in Objects : Summarize(g)
    \/ \E o \in PrintoptionsChoices : SetPrintoptions(o)

SpecSummarize == InitOverlay /\ [][NextSummarize]_vars

\* a template, its copies, and writes into their arrays
NextOverlayCopy ==
    \/ \E seeded \in BOOLEAN : NewTemplate(seeded)
    \/ \E g \in Objects : Copy(g)
    \/ \E g \in Objects : \E i, j \in Dim : ClearCand(g, i, j)
    \/ \E g \in Objects : \E i, j \in Dim : MutateAdj(g, 1, i, j)

SpecOverlayCopy == InitOverlayCopy /\ [][NextOverlayCopy]_vars

\* construction from arguments of any shape
NextUnchecked ==
    \/ NewWorld
    \/ \E seeded \in BOOLEAN : NewTemplate(seeded)
    \/ \E g \in Objects : Copy(g)
    \/ \E g \in Objects : \E k \in 1 .. objs[g].n_nodes : GetCands(g, objs[g].nodes[k])
    \/ \E g \in Objects : GetCandCounts(g)
    \/ \E g \in Objects : Summarize(g)

SpecUnchecked == InitUnchecked /\ [][NextUnchecked]_vars

(* ------------------------------- claims --------------------------------- *)

Shape(A) == <<A.r, A.c>>

Caches(self) == <<self._composite_adj, self._sym_composite_adj, self._is_nbr>>

NoCaches == <<None, None, None>>

\* an index list subgraph must accept: in range, no repeats
ValidIdxs(self, node_idxs) ==
    /\ \A k \in 1 .. Len(node_idxs) : node_idxs[k] \in Range0(self.n_nodes)
    /\ \A a, b \in 1 .. Len(node_idxs) : a # b => node_idxs[a] # node_idxs[b]

\* C1: subgraph(idxs) with a valid index list returns a new graph whose nodes
\* are the receiver's nodes in idxs order and whose matrix for every channel
\* is the receiver's matrix restricted to the rows and columns idxs.
C1_InducedSubgraph ==
    (ret.op = "subgraph" /\ ValidIdxs(objs[ret.g], ret.arg)) =>
        /\ ret.exc = ""
        /\ LET self == objs[ret.g]
               new == objs[ret.val]
           IN  /\ new.nodes = [k \in 1 .. Len(ret.arg) |-> self.nodes[ret.arg[k] + 1]]
               /\ channels(new) = channels(self)
               /\ \A k \in 1 .. Len(self.ch_to_adj) :
                      heap[adjs(new)[k]] = Restrict(heap[adjs(self)[k]], ret.arg)

\* the arguments of the constructor disagree in shape
ShapeMismatch ==
    \/ Len(dataset.channels) # Len(dataset.adjs)
    \/ \E k \in 1 .. Len(dataset.adjs) :
           Shape(heap[dataset.adjs[k]]) # <<Len(dataset.nodes), Len(dataset.nodes)>>

\* C2: constructing a graph from channels and matrices that disagree in
\* number, or from a matrix that is not n_nodes x n_nodes, fails with a
\* shape-mismatch error and yields no instance.
C2_ConstructionRejectsMismatch ==
    (ret.op = "World" /\ ShapeMismatch) => (ret.exc = "ShapeMismatchError" /\ objs = << >>)

NoPairTwice(P) == \A a, b \in 1 .. Len(P) : a # b => P[a] # P[b]

NoPairWithReverse(P) == \A a, b \in 1 .. Len(P) : a # b => P[a] # <<P[b][2], P[b][1]>>

\* the true entries of is_nbr among the cells of Where
TrueEntries(nbr, Where) == Cardinality({p \in Where : nbr.v[p] = 1})

\* C3: nbr_idx_pairs never holds a pair and its reverse, holds each pair
\* once, and has as many rows as is_nbr has true entries strictly below the
\* diagonal.
C3_PairsOfStrictLowerTriangle ==
    (ret.op = "nbr_idx_pairs" /\ ret.exc = "") =>
        LET self == objs[ret.g]
            P == ret.val.v
        IN  /\ NoPairWithReverse(P)
            /\ NoPairTwice(P)
            /\ Len(P) = TrueEntries(self._is_nbr,
                                    {p \in Cells(self.n_nodes, self.n_nodes) : p[1] > p[2]})

\* C4: copy() gives a graph with the receiver's nodes and channels and with
\* matrices equal to the receiver's; afterwards a write into a channel matrix
\* of one graph leaves the matrices of every other graph unchanged, and no
\* step changes the nodes or channels of a graph.
C4_CopyOwnsItsMatrices ==
    [][/\ (ret'.op = "copy" /\ ret'.exc = "") =>
              LET self == objs[ret'.g]
                  new == objs'[ret'.val]
              IN  /\ new.nodes = self.nodes
                  /\ channels(new) = channels(self)
                  /\ AdjValues(heap', new) = AdjValues(heap, self)
       /\ ret'.op = "setitem_adj" =>
              \A o \in Objects \ {ret'.g} : AdjValues(heap', objs[o]) = AdjValues(heap, objs[o])
       /\ \A o \in Objects :
              objs'[o].nodes = objs[o].nodes /\ channels(objs'[o]) = channels(objs[o])]_vars

\* a write has made a copy and its original differ
C4_Witness ==
    /\ ret.op = "setitem_adj"
    /\ Len(objs) >= 2
    /\ AdjValues(heap, objs[1]) # AdjValues(heap, objs[2])

CacheOps == {"composite_adj", "sym_composite_adj", "is_nbr"}

CacheOf(self, op) ==
    IF op = "composite_adj" THEN self._composite_adj
    ELSE IF op = "sym_composite_adj" THEN self._sym_composite_adj
    ELSE self._is_nbr

WithoutCaches(self) ==
    [self EXCEPT !._composite_adj = None, !._sym_composite_adj = None, !._is_nbr = None,
                 !.stores = NoStores]

RowCandidates(self, M, i) ==
    LET cols == {j \in Range0(M.c) : At(M, i, j) = 1}
    IN  [q \in 1 .. Cardinality(cols) |->
            self.cands[(CHOOSE j \in cols : Cardinality({x \in cols : x < j}) = q - 1) + 1]]

\* C6: get_cands(node) returns as many candidates as get_cand_counts()
\* gives for the node's position, and returns exactly the candidates c, in
\* candidate order, with is_cand[node_idxs[node]][cand_idxs[c]] true.
C6_CandidatesMatchCounts ==
    ret.op = "get_cands" =>
        LET self == objs[ret.g]
            i == self.node_idxs[ret.arg]
        IN  /\ ret.exc = ""
            /\ Len(ret.val) = get_cand_counts(heap, self).val[i + 1]
            /\ ret.val = RowCandidates(self, heap[self.is_cand], i)
            /\ \A c \in DOMAIN self.cand_idxs :
                   At(heap[self.is_cand], i, self.cand_idxs[c]) = 1
                       <=> \E q \in 1 .. Len(ret.val) : ret.val[q] = c

Templates == {g \in Objects : objs[g].cls = "Template"}

\* C7: the is_cand of every template that exists has the shape (n_nodes,
\* n_cands), since construction with any other shape fails.
C7_ShapeAlwaysMatches ==
    \A g \in Templates : Shape(heap[objs[g].is_cand]) = <<objs[g].n_nodes, objs[g].n_cands>>

\* C8: copy() of a template gives a template whose is_cand and matrices
\* start equal to the receiver's; afterwards a step that clears an entry of
\* is_cand, or writes into a channel matrix, of one template leaves the
\* is_cand and the matrices of every other template unchanged.
C8_CopyOwnsItsArrays ==
    [][/\ (ret'.op = "copy" /\ ret'.exc = "") =>
              LET self == objs[ret'.g]
                  new == objs'[ret'.val]
              IN  /\ heap'[new.is_cand] = heap[self.is_cand]
                  /\ AdjValues(heap', new) = AdjValues(heap, self)
       /\ ret'.op \in {"clear_cand", "setitem_adj"} =>
              \A o \in Objects \ {ret'.g} :
                  /\ heap'[objs[o].is_cand] = heap[objs[o].is_cand]
                  /\ AdjValues(heap', objs[o]) = AdjValues(heap, objs[o])]_vars

\* a filtering step has made a copy's is_cand differ from its original's
C8_Witness ==
    /\ ret.op = "clear_cand"
    /\ Len(objs) >= 2
    /\ heap[objs[1].is_cand] # heap[objs[2].is_cand]

\* C9: summarize() changes nothing: the arrays, the objects with their
\* caches, the loaded data and numpy's print options are after the call what
\* they were before it.
C9_SummarizeChangesNothing ==
    [][ret'.op = "summarize" =>
           <<dataset', heap', objs', printopts', nwrites'>> = <<dataset, heap, objs, printopts, nwrites>>]_vars

\* summarize printed the lines of a template whose caches are stored, under
\* print options other than the ones it sets while printing
C9_Witness ==
    /\ ret.op = "summarize"
    /\ ret.exc = ""
    /\ Len(ret.val.lines) >= 2
    /\ Len(ret.val.identified) >= 1
    /\ objs[ret.g]._is_nbr # None
    /\ printopts # [threshold |-> SummarizeThreshold, edgeitems |-> SummarizeEdgeitems]

RECURSIVE CellSum(_, _, _)
CellSum(vals, p, k) == IF k = 0 THEN 0 ELSE vals[k].v[p] + CellSum(vals, p, k - 1)

\* the sum over the channels, entry by entry (the empty sum is Python's 0)
DerivedComposite(self) ==
    IF Len(self.ch_to_adj) = 0 THEN Atom("scalar")
    ELSE [kind |-> "int", r |-> self.n_nodes, c |-> self.n_nodes,
          v |-> [p \in Cells(self.n_nodes, self.n_nodes) |->
                    CellSum(AdjValues(heap, self), p, Len(self.ch_to_adj))]]

DerivedSym(self) ==
    [DerivedComposite(self) EXCEPT
        !.v = [p \in Cells(self.n_nodes, self.n_nodes) |->
                  DerivedComposite(self).v[p] + DerivedComposite(self).v[<<p[2], p[1]>>]]]

DerivedIsNbr(self) ==
    [kind |-> "bool", r |-> self.n_nodes, c |-> self.n_nodes,
     v |-> [p \in Cells(self.n_nodes, self.n_nodes) |->
               IF DerivedSym(self).v[p] > 0 THEN 1 ELSE 0]]

\* C10: with no write into a matrix, every stored derived value of a graph
\* is the value derived from that graph's channel matrices (composite: the
\* sum over the channels; symmetric: composite plus its transpose; is_nbr:
\* symmetric > 0), and a graph returned by copy() or subgraph() has its three
\* caches empty.
C10_CachesCoherent ==
    /\ \A g \in Objects :
           LET self == objs[g] IN
           /\ self._composite_adj # None => self._composite_adj = DerivedComposite(self)
           /\ self._sym_composite_adj # None => self._sym_composite_adj = DerivedSym(self)
           /\ self._is_nbr # None => self._is_nbr = DerivedIsNbr(self)
    /\ (ret.op \in {"copy", "subgraph"} /\ ret.exc = "") => Caches(objs[ret.val]) = NoCaches

\* a graph with all three values stored, an edge among them, was copied
C10_Witness ==
    /\ ret.op = "copy"
    /\ ret.exc = ""
    /\ objs[ret.g]._is_nbr # None
    /\ \E p \in DOMAIN objs[ret.g]._is_nbr.v :
           objs[ret.g]._is_nbr.v[p] = 1 /\ objs[ret.g]._composite_adj.v[p] = 0
    /\ Caches(objs[ret.val]) = NoCaches

====
